---- MODULE Spec2Model ----
(***************************************************************************)
(* Model of huffman_tool.py: the Huffman codec (frequency table, min-heap  *)
(* tree construction, code generation, bit packing, container format) and  *)
(* the two file-level operations compress_file and decompress_file.        *)
(*                                                                         *)
(* Representation.                                                         *)
(*   - a Python str is a sequence of character codes (<<97, 97, 98>> is    *)
(*     "aab"); a bit string is a sequence over {0, 1} ('0' / '1');         *)
(*   - a bytes object is a sequence of integers 0..255;                    *)
(*   - a Python dict is a sequence of <<key, value>> pairs in insertion    *)
(*     order (dicts, Counter and json keep insertion order);               *)
(*   - None / a value is the empty / one-element sequence (<<>>, <<v>>);   *)
(*     the same is used for "no file" / "a file with these contents".      *)
(***************************************************************************)
EXTENDS Integers, Sequences, FiniteSets, TLC

VARIABLES
    pc,                   \* position of the session: which operation ran last
    input_text,           \* contents of the text file given to compress_file
    file,                 \* the container file (<<>> when it does not exist)
    output,               \* the file decompress_file writes (<<>>: not written)
    outcome,              \* how the last operation ended (which messagebox, or "raised")
    reports,              \* the operations run so far, each with how it ended
    tamper,               \* what happened to the container between the two operations
    freq_table,           \* compress_file local (line 119)
    huffman_tree,         \* compress_file local (line 120)
    code_table,           \* compress_file local (line 121)
    encoded_text,         \* compress_file local (line 124)
    padded_encoded_text,  \* compress_file local (line 125)
    extra_padding,        \* compress_file local (line 125)
    byte_array,           \* compress_file local (line 126)
    d_tree                \* decompress_file local huffman_tree (line 176)

vars == <<pc, input_text, file, output, outcome, reports, tamper, freq_table, huffman_tree,
          code_table, encoded_text, padded_encoded_text, extra_padding, byte_array,
          d_tree>>

----------------------------------------------------------------------------
(* Bounds *)

MaxLen == 4        \* longest input text enumerated (besides the scenario text)
MaxFreq == 2       \* largest count in an enumerated frequency table
MaxBits == 9       \* longest bit string given to pad_encoded_text on its own

Symbols == {97, 98, 99, 100}             \* 'a' 'b' 'c' 'd'
Scenario == <<97, 97, 97, 98, 98, 99>>   \* "aaabbc"

----------------------------------------------------------------------------
(* Generic helpers *)

\* LET v == e IN F(v), with e evaluated once
Bind(e, F(_)) == CHOOSE y \in {F(v) : v \in {e}} : TRUE

Min(a, b) == IF a < b THEN a ELSE b
Max(a, b) == IF a > b THEN a ELSE b

\* s[lo:hi] with 0-based, end-exclusive Python indices (already clipped by callers)
Slice(s, lo, hi) == IF hi <= lo THEN <<>> ELSE SubSeq(s, lo + 1, hi)

\* "x" * n
Repeat(x, n) == [i \in 1..n |-> x]

\* 0-based list access and assignment, as in heapq
At(heap, i) == heap[i + 1]
Put(heap, i, x) == SubSeq(heap, 1, i) \o <<x>> \o SubSeq(heap, i + 2, Len(heap))

\* dict operations on the insertion-ordered pair sequence
DictHas(d, k) == \E i \in 1..Len(d) : d[i][1] = k
DictGet(d, k) == d[CHOOSE i \in 1..Len(d) : d[i][1] = k][2]
DictSet(d, k, v) ==
    IF DictHas(d, k)
    THEN [i \in 1..Len(d) |-> IF d[i][1] = k THEN <<k, v>> ELSE d[i]]
    ELSE Append(d, <<k, v>>)
DictKeys(d) == {d[i][1] : i \in 1..Len(d)}

----------------------------------------------------------------------------
(* Block 1: Node *)

Node(char, freq) == [char |-> <<char>>, freq |-> freq, left |-> <<>>, right |-> <<>>]
Merged(l, r) == [char |-> <<>>, freq |-> l.freq + r.freq, left |-> <<l>>, right |-> <<r>>]

\* faulty variant: the comparison is reversed (a max-heap)
LtReversed(self, other) == self.freq > other.freq
\* Node.__lt__
Lt(self, other) == self.freq < other.freq

----------------------------------------------------------------------------
(* heapq, as build_huffman_tree uses it *)

RECURSIVE SiftDownLoop(_, _, _, _)
SiftDownLoop(heap, startpos, pos, newitem) ==
    IF pos > startpos
    THEN LET parentpos == (pos - 1) \div 2
             parent == At(heap, parentpos)
         IN IF Lt(newitem, parent)
            THEN SiftDownLoop(Put(heap, pos, parent), startpos, parentpos, newitem)
            ELSE Put(heap, pos, newitem)
    ELSE Put(heap, pos, newitem)

siftdown(heap, startpos, pos) == SiftDownLoop(heap, startpos, pos, At(heap, pos))

RECURSIVE SiftUpLoop(_, _, _, _)
SiftUpLoop(heap, startpos, pos, newitem) ==
    LET endpos == Len(heap)
        childpos == 2 * pos + 1
        rightpos == childpos + 1
        smaller == IF rightpos < endpos /\ ~Lt(At(heap, childpos), At(heap, rightpos))
                   THEN rightpos ELSE childpos
    IN IF childpos < endpos
       THEN SiftUpLoop(Put(heap, pos, At(heap, smaller)), startpos, smaller, newitem)
       ELSE siftdown(Put(heap, pos, newitem), startpos, pos)

siftup(heap, pos) == SiftUpLoop(heap, pos, pos, At(heap, pos))

RECURSIVE HeapifyFrom(_, _)
HeapifyFrom(x, i) == IF i < 0 THEN x ELSE HeapifyFrom(siftup(x, i), i - 1)

heapify(x) == HeapifyFrom(x, (Len(x) \div 2) - 1)

\* returns the popped item and the heap left behind
heappop(heap) ==
    LET lastelt == heap[Len(heap)]
        rest == SubSeq(heap, 1, Len(heap) - 1)
    IN IF rest # <<>>
       THEN [item |-> rest[1], heap |-> siftup(Put(rest, 0, lastelt), 0)]
       ELSE [item |-> lastelt, heap |-> rest]

heappush(heap, item) == siftdown(Append(heap, item), 0, Len(heap))

----------------------------------------------------------------------------
(* Block 2: frequency table and tree *)

RECURSIVE CountFrom(_, _, _)
CountFrom(text, i, d) ==
    IF i > Len(text) THEN d
    ELSE LET k == <<text[i]>>
         IN CountFrom(text, i + 1, DictSet(d, k, IF DictHas(d, k) THEN DictGet(d, k) + 1 ELSE 1))

build_frequency_table(text) == CountFrom(text, 1, <<>>)

RECURSIVE MergeLoop(_)
MergeLoop(heap) ==
    IF Len(heap) > 1
    THEN Bind(heappop(heap), LAMBDA p1 :
         Bind(heappop(p1.heap), LAMBDA p2 :
         Bind(heappush(p2.heap, Merged(p1.item, p2.item)), LAMBDA pushed :
           MergeLoop(pushed))))
    ELSE heap

build_huffman_tree(table) ==
    LET heap == MergeLoop(heapify([i \in 1..Len(table) |-> Node(table[i][1], table[i][2])]))
    IN IF heap # <<>> THEN <<heap[1]>> ELSE <<>>

----------------------------------------------------------------------------
(* Block 3: codes *)

\* faulty variant: the single-node case yields "1"
LeafCodeOne(current_code) == IF current_code # <<>> THEN current_code ELSE <<1>>
\* faulty variant: the single-node case is not handled, the lone leaf gets the empty code
LeafCodeEmpty(current_code) == current_code
\* current_code or "0"
LeafCode(current_code) == IF current_code # <<>> THEN current_code ELSE <<0>>

RECURSIVE GenerateInto(_, _, _)
GenerateInto(node, current_code, table) ==
    IF node = <<>> THEN table
    ELSE IF node[1].char # <<>>
    THEN DictSet(table, node[1].char[1], LeafCode(current_code))
    ELSE GenerateInto(node[1].right, Append(current_code, 1),
                      GenerateInto(node[1].left, Append(current_code, 0), table))

generate_codes(node) == GenerateInto(node, <<>>, <<>>)

----------------------------------------------------------------------------
(* Block 4: encoding and bit packing *)

RECURSIVE EncodeFrom(_, _, _)
EncodeFrom(text, table, i) ==
    IF i > Len(text) THEN <<>>
    ELSE DictGet(table, <<text[i]>>) \o EncodeFrom(text, table, i + 1)

encode_text(text, table) == EncodeFrom(text, table, 1)

\* faulty variant: the "no padding needed" case is dropped, a full byte of padding is added
PadAmountNoReset(n) == 8 - (n % 8)
\* lines 84-86
PadAmount(n) == LET extra == 8 - (n % 8) IN IF extra = 8 THEN 0 ELSE extra

\* returns the pair (padded_encoded_text, extra_padding)
pad_encoded_text(text) ==
    LET extra == PadAmount(Len(text)) IN <<text \o Repeat(0, extra), extra>>

\* int(byte, 2)
RECURSIVE IntBase2(_)
IntBase2(bits) ==
    IF bits = <<>> THEN 0
    ELSE 2 * IntBase2(SubSeq(bits, 1, Len(bits) - 1)) + bits[Len(bits)]

get_byte_array(padded) ==
    [k \in 1..((Len(padded) + 7) \div 8) |->
        IntBase2(Slice(padded, 8 * (k - 1), Min(8 * k, Len(padded))))]

\* bin(byte)[2:]
RECURSIVE Bin(_)
Bin(n) == IF n < 2 THEN <<n>> ELSE Append(Bin(n \div 2), n % 2)

\* s.rjust(width, '0')
RJust(s, width) == Repeat(0, Max(0, width - Len(s))) \o s

RECURSIVE BitString(_)
BitString(data) ==
    IF data = <<>> THEN <<>> ELSE RJust(Bin(data[1]), 8) \o BitString(Tail(data))

\* lines 182-183
StripPadding(bit_string, padding) ==
    IF padding > 0 THEN Slice(bit_string, 0, Max(0, Len(bit_string) - padding)) ELSE bit_string

----------------------------------------------------------------------------
(* struct and json, as the container format uses them *)

\* struct.pack("I", n): four bytes in the host's byte order (little-endian here;
\* pack and unpack run on the same host, so the order cancels out)
Pack(n) == <<n % 256, (n \div 256) % 256, (n \div 65536) % 256, (n \div 16777216) % 256>>

\* struct.unpack("I", b)[0]
Unpack(b) == b[1] + 256 * b[2] + 65536 * b[3] + 16777216 * b[4]

\* JSON values of the modelled subset: integers (n), strings (s), objects (items);
\* t says which of the three fields carries the value
JNum(n) == [t |-> "num", n |-> n, s |-> <<>>, items |-> <<>>]
JStr(str) == [t |-> "str", n |-> 0, s |-> str, items |-> <<>>]
JObj(members) == [t |-> "obj", n |-> 0, s |-> <<>>, items |-> members]

KeyFreq == <<102, 114, 101, 113>>                    \* "freq"
KeyPadding == <<112, 97, 100, 100, 105, 110, 103>>   \* "padding"

RECURSIVE NatStr(_)
NatStr(n) == IF n < 10 THEN <<48 + n>> ELSE Append(NatStr(n \div 10), 48 + (n % 10))

IntStr(n) == IF n < 0 THEN <<45>> \o NatStr(-n) ELSE NatStr(n)

\* faulty variant: json.dumps(..., sort_keys=True) on one-character keys
RECURSIVE SortedItems(_)
SortedItems(items) ==
    IF items = <<>> THEN <<>>
    ELSE LET m == CHOOSE i \in 1..Len(items) :
                      \A j \in 1..Len(items) : items[i][1][1] <= items[j][1][1]
         IN <<items[m]>> \o SortedItems([k \in 1..(Len(items) - 1) |->
                                             IF k < m THEN items[k] ELSE items[k + 1]])
\* the order in which json.dumps writes the entries of a dict: insertion order
ItemOrder(items) == items

\* json.dumps with the default separators; the modelled strings are ASCII letters,
\* which json.dumps writes unescaped
RECURSIVE JsonDumps(_), DumpItems(_, _)
JsonDumps(x) ==
    CASE x.t = "num" -> IntStr(x.n)
      [] x.t = "str" -> <<34>> \o x.s \o <<34>>
      [] x.t = "obj" -> <<123>> \o DumpItems(ItemOrder(x.items), 1) \o <<125>>
DumpItems(items, i) ==
    IF i > Len(items) THEN <<>>
    ELSE (IF i > 1 THEN <<44, 32>> ELSE <<>>)
         \o <<34>> \o items[i][1] \o <<34, 58, 32>> \o JsonDumps(items[i][2])
         \o DumpItems(items, i + 1)

\* json.loads on the subset: whitespace, integers, strings without escapes, objects.
\* Anything else (arrays, literals, floats, escapes, non-ASCII) is reported as a
\* parse failure.
Ch(s, i) == IF i >= 1 /\ i <= Len(s) THEN s[i] ELSE -1
IsWs(c) == c \in {32, 9, 10, 13}
IsDigit(c) == c >= 48 /\ c <= 57
ParseFail == [ok |-> FALSE, val |-> JNum(0), next |-> 0]

RECURSIVE SkipWs(_, _)
SkipWs(s, i) == IF IsWs(Ch(s, i)) THEN SkipWs(s, i + 1) ELSE i

\* index of the closing quote of the string whose text starts at j, 0 if none
RECURSIVE StrEnd(_, _)
StrEnd(s, j) ==
    LET c == Ch(s, j)
    IN IF c = 34 THEN j
       ELSE IF c < 32 \/ c = 92 \/ c >= 128 THEN 0
       ELSE StrEnd(s, j + 1)

ParseString(s, i) ==
    LET e == StrEnd(s, i + 1)
    IN IF e = 0 THEN ParseFail
       ELSE [ok |-> TRUE, val |-> JStr(Slice(s, i, e - 1)), next |-> e + 1]

RECURSIVE DigitsEnd(_, _)
DigitsEnd(s, j) == IF IsDigit(Ch(s, j)) THEN DigitsEnd(s, j + 1) ELSE j

RECURSIVE DigitsVal(_, _, _)
DigitsVal(s, lo, hi) ==
    IF hi < lo THEN 0 ELSE 10 * DigitsVal(s, lo, hi - 1) + (s[hi] - 48)

ParseNumber(s, i) ==
    LET neg == Ch(s, i) = 45
        d == IF neg THEN i + 1 ELSE i
        e == IF Ch(s, d) = 48 THEN d + 1 ELSE DigitsEnd(s, d)
        mag == DigitsVal(s, d, e - 1)
    IN IF e = d \/ Ch(s, e) \in {46, 69, 101} THEN ParseFail
       ELSE [ok |-> TRUE, val |-> JNum(IF neg THEN -mag ELSE mag), next |-> e]

RECURSIVE ParseValue(_, _), ParseMembers(_, _, _)
ParseValue(s, i) ==
    LET c == Ch(s, i)
    IN IF c = 34 THEN ParseString(s, i)
       ELSE IF c = 45 \/ IsDigit(c) THEN ParseNumber(s, i)
       ELSE IF c = 123
       THEN LET j == SkipWs(s, i + 1)
            IN IF Ch(s, j) = 125
               THEN [ok |-> TRUE, val |-> JObj(<<>>), next |-> j + 1]
               ELSE ParseMembers(s, j, <<>>)
       ELSE ParseFail
ParseMembers(s, j, acc) ==
    IF Ch(s, j) # 34 THEN ParseFail
    ELSE Bind(ParseString(s, j), LAMBDA key :
         Bind(SkipWs(s, key.next), LAMBDA colon :
           IF ~key.ok \/ Ch(s, colon) # 58 THEN ParseFail
           ELSE Bind(ParseValue(s, SkipWs(s, colon + 1)), LAMBDA val :
                Bind(SkipWs(s, val.next), LAMBDA m :
                  IF ~val.ok THEN ParseFail
                  ELSE IF Ch(s, m) = 44
                  THEN ParseMembers(s, SkipWs(s, m + 1), DictSet(acc, key.val.s, val.val))
                  ELSE IF Ch(s, m) = 125
                  THEN [ok |-> TRUE, val |-> JObj(DictSet(acc, key.val.s, val.val)),
                        next |-> m + 1]
                  ELSE ParseFail))))

\* header_bytes.decode("utf-8") followed by json.loads: ok is FALSE when either
\* raises (both raise a ValueError)
JsonLoads(s) ==
    Bind(ParseValue(s, SkipWs(s, 1)), LAMBDA r :
      IF r.ok /\ SkipWs(s, r.next) = Len(s) + 1 THEN r ELSE ParseFail)

----------------------------------------------------------------------------
(* Outcomes: the messagebox an operation ends with, or an exception that leaves it *)

Report(kind, msg, cause) == [kind |-> kind, msg |-> msg, cause |-> cause]
NoOutcome == Report("none", "", "")
Raised(cause) == Report("raised", "", cause)

IOModes == {"ok", "read_fails", "open_fails", "write_fails"}

----------------------------------------------------------------------------
(* Block 5: compress_file *)

NoLocals ==
    [freq_table |-> <<>>, huffman_tree |-> <<>>, code_table |-> <<>>, encoded_text |-> <<>>,
     padded_encoded_text |-> <<>>, extra_padding |-> 0, byte_array |-> <<>>]

\* faulty variant: the emptiness test is inverted away (never true)
IsEmptyNever(data) == Len(data) < 0
\* "not text" / "not compressed_data"
IsEmpty(data) == Len(data) = 0

Header(table, padding) ==
    JObj(<<<<KeyFreq, JObj([i \in 1..Len(table) |-> <<table[i][1], JNum(table[i][2])>>])>>,
           <<KeyPadding, JNum(padding)>>>>)

\* lines 140-142
Container(hdr, payload) == Pack(Len(hdr)) \o hdr \o payload

\* the result of compress_file(input_path, output_path) on a file holding text:
\* the outcome, the container file afterwards (old is the file before) and the locals
compress_file(txt, old, io) ==
    IF io = "read_fails"
    THEN [outcome |-> Report("error", "Could not read file", "OSError"),
          file |-> old, locals |-> NoLocals]
    ELSE IF IsEmpty(txt)
    THEN [outcome |-> Report("warning", "Input file is empty!", ""),
          file |-> old, locals |-> NoLocals]
    ELSE
      Bind(build_frequency_table(txt), LAMBDA ft :
      Bind(build_huffman_tree(ft), LAMBDA tree :
      Bind(generate_codes(tree), LAMBDA codes :
      Bind(encode_text(txt, codes), LAMBDA enc :
      Bind(pad_encoded_text(enc), LAMBDA pad :
      Bind(get_byte_array(pad[1]), LAMBDA bytes :
      Bind(JsonDumps(Header(ft, pad[2])), LAMBDA header_bytes :
      Bind([freq_table |-> ft, huffman_tree |-> tree, code_table |-> codes,
            encoded_text |-> enc, padded_encoded_text |-> pad[1],
            extra_padding |-> pad[2], byte_array |-> bytes], LAMBDA locals :
        [outcome |->
            IF io = "ok" THEN Report("success", "File compressed successfully!", "")
            ELSE Report("error", "Could not write output file", "OSError"),
         file |->
            IF io = "ok" THEN <<Container(header_bytes, bytes)>>
            ELSE IF io = "write_fails" THEN <<<<>>>>
            ELSE old,
         locals |-> locals]))))))))

----------------------------------------------------------------------------
(* Block 6: decompress_file *)

\* lines 154-166: the result of the first try block; ok is FALSE when it raised
ReadContainer(cf, mode) ==
    LET failed(cause) == [ok |-> FALSE, cause |-> cause, freq_table |-> JNum(0),
                          extra_padding |-> JNum(0), compressed_data |-> <<>>]
    IN IF cf = <<>> \/ mode = "read_fails" THEN failed("OSError")
       ELSE IF Len(cf[1]) < 4 THEN failed("Exception")
       ELSE
         Bind(Unpack(SubSeq(cf[1], 1, 4)), LAMBDA header_length :
         Bind(SubSeq(cf[1], 5, Len(cf[1])), LAMBDA rest :
         Bind(Slice(rest, 0, Min(header_length, Len(rest))), LAMBDA header_bytes :
         Bind(JsonLoads(header_bytes), LAMBDA parsed :
           IF ~parsed.ok THEN failed("ValueError")
           ELSE IF parsed.val.t # "obj" THEN failed("TypeError")
           ELSE IF ~DictHas(parsed.val.items, KeyFreq) \/ ~DictHas(parsed.val.items, KeyPadding)
           THEN failed("KeyError")
           ELSE [ok |-> TRUE, cause |-> "",
                 freq_table |-> DictGet(parsed.val.items, KeyFreq),
                 extra_padding |-> DictGet(parsed.val.items, KeyPadding),
                 compressed_data |-> Slice(rest, Len(header_bytes), Len(rest))]))))

\* the dict of the header as build_huffman_tree reads it. The counts of the
\* modelled containers are integers; counts of another JSON type make the heap
\* comparison or the sum of line 43 raise a TypeError
CountsAreInts(items) == \A i \in 1..Len(items) : items[i][2].t = "num"
FreqItems(items) == [i \in 1..Len(items) |-> <<items[i][1], items[i][2].n>>]

\* lines 186-192: the bit walk; decoded is <<>> when an AttributeError left the loop
RECURSIVE Walk(_, _, _, _, _)
Walk(bit_string, i, current_node, tree, decoded_text) ==
    IF i > Len(bit_string) THEN [ok |-> TRUE, decoded_text |-> decoded_text]
    ELSE IF current_node = <<>> THEN [ok |-> FALSE, decoded_text |-> <<>>]
    ELSE Bind(IF bit_string[i] = 0 THEN current_node[1].left ELSE current_node[1].right,
              LAMBDA next :
           IF next = <<>> THEN [ok |-> FALSE, decoded_text |-> <<>>]
           ELSE IF next[1].char # <<>>
           THEN Walk(bit_string, i + 1, tree, tree, decoded_text \o next[1].char[1])
           ELSE Walk(bit_string, i + 1, next, tree, decoded_text))

\* the result of decompress_file(input_path, output_path) on the container f:
\* the outcome, the output file afterwards (old is the file before), the rebuilt tree
decompress_file(f, old, io) ==
    Bind(ReadContainer(f, io), LAMBDA c :
      IF ~c.ok
      THEN [outcome |-> Report("error", "Could not read compressed file", c.cause),
            output |-> old, tree |-> <<>>]
      ELSE IF IsEmpty(c.compressed_data)
      THEN [outcome |-> Report("warning", "Compressed file is empty!", ""),
            output |-> old, tree |-> <<>>]
      ELSE IF c.freq_table.t # "obj"
      THEN [outcome |-> Raised("AttributeError"), output |-> old, tree |-> <<>>]
      ELSE IF ~CountsAreInts(c.freq_table.items)
      THEN [outcome |-> Raised("TypeError"), output |-> old, tree |-> <<>>]
      ELSE
        Bind(build_huffman_tree(FreqItems(c.freq_table.items)), LAMBDA root :
          IF c.extra_padding.t # "num"
          THEN [outcome |-> Raised("TypeError"), output |-> old, tree |-> root]
          ELSE
            Bind(StripPadding(BitString(c.compressed_data), c.extra_padding.n), LAMBDA bits :
            Bind(Walk(bits, 1, root, root, <<>>), LAMBDA walk :
              IF ~walk.ok
              THEN [outcome |-> Raised("AttributeError"), output |-> old, tree |-> root]
              ELSE IF io = "open_fails"
              THEN [outcome |-> Report("error", "Could not write decompressed file",
                                       "OSError"),
                    output |-> old, tree |-> root]
              ELSE IF io = "write_fails"
              THEN [outcome |-> Report("error", "Could not write decompressed file",
                                       "OSError"),
                    output |-> <<<<>>>>, tree |-> root]
              ELSE [outcome |-> Report("success", "File decompressed successfully!", ""),
                    output |-> <<walk.decoded_text>>, tree |-> root]))))

----------------------------------------------------------------------------
(* The session: a text is compressed, the container may be damaged or replaced *)
(* by a foreign one, and the container is decompressed                         *)

Texts == UNION {[1..n -> Symbols] : n \in 0..MaxLen} \cup {Scenario}

Init ==
    /\ pc = "start"
    /\ input_text \in Texts
    /\ file = <<>>
    /\ output = <<>>
    /\ outcome = NoOutcome
    /\ reports = <<>>
    /\ tamper = "none"
    /\ freq_table = <<>>
    /\ huffman_tree = <<>>
    /\ code_table = <<>>
    /\ encoded_text = <<>>
    /\ padded_encoded_text = <<>>
    /\ extra_padding = 0
    /\ byte_array = <<>>
    /\ d_tree = <<>>

CompressFile ==
    /\ pc = "start"
    /\ \E io \in IOModes :
         \E r \in {compress_file(input_text, file, io)} :
            /\ outcome' = r.outcome
            /\ file' = r.file
            /\ freq_table' = r.locals.freq_table
            /\ huffman_tree' = r.locals.huffman_tree
            /\ code_table' = r.locals.code_table
            /\ encoded_text' = r.locals.encoded_text
            /\ padded_encoded_text' = r.locals.padded_encoded_text
            /\ extra_padding' = r.locals.extra_padding
            /\ byte_array' = r.locals.byte_array
            /\ reports' = Append(reports, [op |-> "compress", outcome |-> r.outcome])
    /\ pc' = "compressed"
    /\ UNCHANGED <<input_text, output, tamper, d_tree>>

\* the environment removes the last byte of a container compress_file produced
TruncatePayload ==
    /\ pc = "compressed"
    /\ outcome.kind = "success"
    /\ file' = <<SubSeq(file[1], 1, Len(file[1]) - 1)>>
    /\ tamper' = "truncated"
    /\ pc' = "tampered"
    /\ UNCHANGED <<input_text, output, outcome, reports, freq_table, huffman_tree, code_table,
                   encoded_text, padded_encoded_text, extra_padding, byte_array, d_tree>>

\* the environment rewrites the 4-byte headerLength field of such a container
HeaderLengths(bytes) ==
    LET declared == Unpack(SubSeq(bytes, 1, 4))
        remaining == Len(bytes) - 4
    IN {0, declared - 1, declared + 1, remaining + 1, 16777216}

SetHeaderLength ==
    /\ pc = "compressed"
    /\ outcome.kind = "success"
    /\ \E n \in HeaderLengths(file[1]) :
         file' = <<Pack(n) \o SubSeq(file[1], 5, Len(file[1]))>>
    /\ tamper' = "hlen"
    /\ pc' = "tampered"
    /\ UNCHANGED <<input_text, output, outcome, reports, freq_table, huffman_tree, code_table,
                   encoded_text, padded_encoded_text, extra_padding, byte_array, d_tree>>

\* containers that compress_file did not write
ForgedFreqs ==
    {JObj(<<>>),
     JObj(<<<<<<97>>, JNum(1)>>>>),
     JObj(<<<<<<98>>, JNum(1)>>, <<<<97>>, JNum(1)>>>>),
     JObj(<<<<<<97>>, JNum(0)>>, <<<<98>>, JNum(2)>>, <<<<99>>, JNum(1)>>>>),
     JNum(5)}
ForgedPaddings == {JNum(0), JNum(3), JNum(8), JNum(-1), JStr(<<120>>)}
ForgedHeaders ==
    {JObj(<<<<KeyFreq, f>>, <<KeyPadding, p>>>>) : f \in ForgedFreqs, p \in ForgedPaddings}
    \cup {JObj(<<<<KeyFreq, JObj(<<>>)>>>>), JObj(<<<<KeyPadding, JNum(0)>>>>),
          JStr(KeyFreq), JNum(7)}
ForgedPayloads == {<<>>, <<0>>, <<160>>, <<32>>}
ForgedFiles ==
    {Container(JsonDumps(h), p) : h \in ForgedHeaders, p \in ForgedPayloads}
    \cup {Pack(n) \o JsonDumps(Header(<<<<<<97>>, 1>>>>, 7)) \o p :
              n \in {31, 33, 40}, p \in ForgedPayloads}
    \cup {<<>>, <<2, 0, 0>>, Container(<<123, 91, 93, 125>>, <<0>>),
          Container(<<123, 195, 169, 125>>, <<0>>)}

\* decompress_file never reads the text file, so foreign containers are
\* enumerated in the sessions of the empty text only
ForgeContainer ==
    /\ pc \in {"start", "compressed"}
    /\ input_text = <<>>
    /\ \E f \in ForgedFiles : file' = <<f>>
    /\ tamper' = "forged"
    /\ pc' = "tampered"
    /\ UNCHANGED <<input_text, output, outcome, reports, freq_table, huffman_tree, code_table,
                   encoded_text, padded_encoded_text, extra_padding, byte_array, d_tree>>

DecompressFile ==
    /\ pc \in {"compressed", "tampered"}
    /\ \E io \in IOModes :
         \E r \in {decompress_file(file, output, io)} :
            /\ outcome' = r.outcome
            /\ output' = r.output
            /\ d_tree' = r.tree
            /\ reports' = Append(reports, [op |-> "decompress", outcome |-> r.outcome])
    /\ pc' = "decompressed"
    /\ UNCHANGED <<input_text, file, tamper, freq_table, huffman_tree, code_table,
                   encoded_text, padded_encoded_text, extra_padding, byte_array>>

Next == CompressFile \/ TruncatePayload \/ SetHeaderLength \/ ForgeContainer \/ DecompressFile

Spec == Init /\ [][Next]_vars

----------------------------------------------------------------------------
(* pad_encoded_text on its own: every bit string up to MaxBits bits *)

BitStrings == UNION {[1..n -> {0, 1}] : n \in 0..MaxBits}

InitPad ==
    /\ pc = "bits"
    /\ encoded_text \in BitStrings
    /\ input_text = <<>>
    /\ file = <<>>
    /\ output = <<>>
    /\ outcome = NoOutcome
    /\ reports = <<>>
    /\ tamper = "none"
    /\ freq_table = <<>>
    /\ huffman_tree = <<>>
    /\ code_table = <<>>
    /\ padded_encoded_text = <<>>
    /\ extra_padding = 0
    /\ byte_array = <<>>
    /\ d_tree = <<>>

PadEncodedText ==
    /\ pc = "bits"
    /\ padded_encoded_text' = pad_encoded_text(encoded_text)[1]
    /\ extra_padding' = pad_encoded_text(encoded_text)[2]
    /\ byte_array' = get_byte_array(padded_encoded_text')
    /\ pc' = "padded"
    /\ UNCHANGED <<input_text, file, output, outcome, reports, tamper, freq_table, huffman_tree,
                   code_table, encoded_text, d_tree>>

NextPad == PadEncodedText

SpecPad == InitPad /\ [][NextPad]_vars

----------------------------------------------------------------------------
(* build_huffman_tree and generate_codes on their own: every frequency table  *)
(* over Symbols with counts up to MaxFreq, in every insertion order           *)

FreqTables ==
    UNION {{[i \in 1..n |-> <<<<ks[i]>>, cs[i]>>] :
                ks \in {s \in [1..n -> Symbols] : \A i, j \in 1..n : s[i] = s[j] => i = j},
                cs \in [1..n -> 1..MaxFreq]} :
           n \in 0..Cardinality(Symbols)}

InitCodes ==
    /\ pc = "table"
    /\ freq_table \in FreqTables
    /\ input_text = <<>>
    /\ file = <<>>
    /\ output = <<>>
    /\ outcome = NoOutcome
    /\ reports = <<>>
    /\ tamper = "none"
    /\ huffman_tree = <<>>
    /\ code_table = <<>>
    /\ encoded_text = <<>>
    /\ padded_encoded_text = <<>>
    /\ extra_padding = 0
    /\ byte_array = <<>>
    /\ d_tree = <<>>

GenerateCodes ==
    /\ pc = "table"
    /\ huffman_tree' = build_huffman_tree(freq_table)
    /\ code_table' = generate_codes(huffman_tree')
    /\ pc' = "coded"
    /\ UNCHANGED <<input_text, file, output, outcome, reports, tamper, freq_table, encoded_text,
                   padded_encoded_text, extra_padding, byte_array, d_tree>>

NextCodes == GenerateCodes

SpecCodes == InitCodes /\ [][NextCodes]_vars

----------------------------------------------------------------------------
(* Properties *)

\* compress_file wrote a container and nothing touched it since
Produced == tamper = "none" /\ file # <<>> /\ file[1] # <<>>

\* the operation was cut short by the file system, not by the codec
IOFailed == outcome.cause = "OSError"

DistinctSymbols == {input_text[i] : i \in 1..Len(input_text)}

\* the header and payload of a container as the format lays them out
DeclaredLength(bytes) == Unpack(SubSeq(bytes, 1, 4))
HeaderOf(bytes) == SubSeq(bytes, 5, 4 + DeclaredLength(bytes))
PayloadOf(bytes) == SubSeq(bytes, 5 + DeclaredLength(bytes), Len(bytes))
HasHeader(bytes) ==
    /\ Len(bytes) >= 4
    /\ DeclaredLength(bytes) <= Len(bytes) - 4
    /\ LET h == JsonLoads(HeaderOf(bytes))
       IN /\ h.ok
          /\ h.val.t = "obj"
          /\ DictHas(h.val.items, KeyFreq)
          /\ DictHas(h.val.items, KeyPadding)
RecordedPadding(bytes) == DictGet(JsonLoads(HeaderOf(bytes)).val.items, KeyPadding).n

IsPrefix(a, b) == Len(a) <= Len(b) /\ SubSeq(b, 1, Len(a)) = a

\* C1 (as claimed): decompressing the container compress_file produced from a
\* non-empty text succeeds and writes exactly that text, single-symbol texts included.
C1_RoundTrip ==
    (pc = "decompressed" /\ Produced /\ ~IOFailed)
        => (outcome.kind = "success" /\ output = <<input_text>>)

\* C2 (as claimed): decompressing a produced container whose last payload byte was
\* removed ends in an error report and writes no output.
C2_CorruptionDetected ==
    (pc = "decompressed" /\ tamper = "truncated")
        => (outcome.kind = "error" /\ output = <<>>)

\* C3 (as claimed): no operation is left by an exception; each ends in a report.
C3_NoErrorEscapes == outcome.kind # "raised"

\* C4: compressing the empty text ends in the "Input file is empty!" warning and the
\* container file is never created; decompressing a container with a well-formed
\* header and a zero-byte payload ends in the warning and writes no output.
C4_EmptyInputRejected ==
    /\ \A i \in 1..Len(reports) :
         (reports[i].op = "compress" /\ input_text = <<>>
             /\ reports[i].outcome.cause # "OSError")
            => reports[i].outcome = Report("warning", "Input file is empty!", "")
    /\ (pc = "compressed" /\ input_text = <<>>) => file = <<>>
    /\ (pc = "decompressed" /\ file # <<>> /\ HasHeader(file[1])
          /\ PayloadOf(file[1]) = <<>> /\ ~IOFailed)
         => (outcome = Report("warning", "Compressed file is empty!", "") /\ output = <<>>)

C4_Witness ==
    /\ pc = "decompressed"
    /\ input_text = <<>>
    /\ Len(reports) = 2
    /\ reports[1] = [op |-> "compress", outcome |-> Report("warning", "Input file is empty!", "")]
    /\ file # <<>> /\ HasHeader(file[1]) /\ PayloadOf(file[1]) = <<>>
    /\ outcome.kind = "warning"
    /\ output = <<>>

\* C5: for a bit string of n bits pad_encoded_text returns (8 - n mod 8) mod 8
\* padding bits, a number in 0..7; the padded length is n plus that and a multiple
\* of 8; the padded string is the input followed by zeros only.
C5_PaddingBound ==
    pc = "padded" =>
        LET n == Len(encoded_text)
        IN /\ extra_padding = (8 - (n % 8)) % 8
           /\ extra_padding \in 0..7
           /\ Len(padded_encoded_text) = n + extra_padding
           /\ Len(padded_encoded_text) % 8 = 0
           /\ SubSeq(padded_encoded_text, 1, n) = encoded_text
           /\ \A i \in (n + 1)..Len(padded_encoded_text) : padded_encoded_text[i] = 0

C5_Witness ==
    pc = "padded" /\ Len(encoded_text) = 8 /\ extra_padding = 0
        /\ padded_encoded_text = encoded_text

\* C6: for a non-empty frequency table the code table has exactly the table's
\* symbols as keys (each once), every code is non-empty, and no code is a prefix
\* of another symbol's code.
C6_PrefixFree ==
    (pc = "coded" /\ freq_table # <<>>) =>
        /\ DictKeys(code_table) = DictKeys(freq_table)
        /\ Len(code_table) = Len(freq_table)
        /\ \A i \in 1..Len(code_table) : code_table[i][2] # <<>>
        /\ \A i, j \in 1..Len(code_table) :
             i # j => ~IsPrefix(code_table[i][2], code_table[j][2])

C6_Witness ==
    /\ pc = "coded"
    /\ Len(freq_table) = 1
    /\ code_table = <<<<freq_table[1][1], <<0>>>>>>

\* C7: for a text of one repeated symbol the code table maps that symbol to "0",
\* and the payload of the container, expanded to bits and cut by the padding the
\* header records, is Len(text) zero bits.
C7_SingleSymbol ==
    (pc = "compressed" /\ outcome.kind = "success" /\ Cardinality(DistinctSymbols) = 1) =>
        /\ code_table = <<<<<<input_text[1]>>, <<0>>>>>>
        /\ HasHeader(file[1])
        /\ StripPadding(BitString(PayloadOf(file[1])), RecordedPadding(file[1]))
              = Repeat(0, Len(input_text))

C7_Witness ==
    /\ pc = "compressed"
    /\ outcome.kind = "success"
    /\ input_text = <<98, 98, 98>>
    /\ code_table = <<<<<<98>>, <<0>>>>>>
    /\ PayloadOf(file[1]) = <<0>>

\* C8 (as claimed): "aaabbc" is encoded in 18 bits, padded to 24 bits with 6 padding
\* bits and packed into 3 bytes.
C8_Scenario18Bits ==
    (pc = "compressed" /\ outcome.kind = "success" /\ input_text = Scenario) =>
        /\ Len(encoded_text) = 18
        /\ extra_padding = 6
        /\ Len(padded_encoded_text) = 24
        /\ Len(byte_array) = 3

\* C8 (amended): "aaabbc" has the frequency table a:3, b:2, c:1 and code lengths
\* 1, 2, 2; it is encoded in 9 bits, padded to 16 bits with 7 padding bits and
\* packed into 2 payload bytes.
C8_Scenario9Bits ==
    (pc = "compressed" /\ outcome.kind = "success" /\ input_text = Scenario) =>
        /\ freq_table = <<<<<<97>>, 3>>, <<<<98>>, 2>>, <<<<99>>, 1>>>>
        /\ Len(DictGet(code_table, <<97>>)) = 1
        /\ Len(DictGet(code_table, <<98>>)) = 2
        /\ Len(DictGet(code_table, <<99>>)) = 2
        /\ Len(encoded_text) = 9
        /\ extra_padding = 7
        /\ Len(padded_encoded_text) = 16
        /\ Len(byte_array) = 2
        /\ PayloadOf(file[1]) = byte_array

C8_Witness ==
    /\ pc = "compressed"
    /\ outcome.kind = "success"
    /\ input_text = Scenario
    /\ Len(encoded_text) = 9
    /\ Len(byte_array) = 2

C10_TieBreakConsistent ==
    (pc = "decompressed" /\ Produced /\ ~IOFailed /\ Len(freq_table) >= 2) =>
        /\ d_tree = huffman_tree
        /\ generate_codes(d_tree) = code_table
        /\ outcome.kind = "success"
        /\ output = <<input_text>>

C10_Witness ==
    /\ pc = "decompressed"
    /\ Produced
    /\ input_text = <<100, 98, 97, 99>>
    /\ \A i \in 1..Len(freq_table) : freq_table[i][2] = 1
    /\ d_tree = huffman_tree
    /\ output = <<input_text>>

====
